---------------------------- MODULE Spec2Model ----------------------------
(***************************************************************************)
(* A model of the pyagents repository: the five mock diagnostic tools of   *)
(* sre_agent_tools.py (specification Spec) and the start-up and main       *)
(* coroutine of the three scripts agents_test.py, sre_agent.py and         *)
(* tools_streaming.py (specification SpecScripts).                         *)
(*                                                                         *)
(* Representation.  A Python float is a fixed-point integer counting       *)
(* thousandths (Milli per unit); round(x, 2) is Round2Ratio.  A Python str  *)
(* that the code only compares or passes on is a TLA+ string; a str the    *)
(* code splits is a sequence of one-character strings.  Optional[str] is a *)
(* record [is_none, s].  A dict is a record [keys, val] that keeps the     *)
(* insertion order of its keys.  Every call of the random module is an     *)
(* existentially chosen draw.                                              *)
(***************************************************************************)
EXTENDS Integers, Sequences, FiniteSets, TLC

VARIABLES
    \* ---- sre_agent_tools.py: one tool call at a time
    tool,       \* the tool being called, "none" between calls
    args,       \* the arguments of the call that the tool reads
    draws,      \* the outcomes of the scenario draws of the call
    ret,        \* [raised, value]: the exception raised or the record returned
    \* ---- the scripts
    script,     \* which script the interpreter runs
    pc,         \* the position of the script
    environ,    \* os.environ's OPENAI_API_KEY
    dotenv,     \* the .env file's OPENAI_API_KEY
    api_key,    \* the module variable api_key
    custom_client,   \* the module variable custom_client
    default_client,  \* the framework's process-wide default client
    installs,   \* how many times set_default_openai_client was called
    raised,     \* the exception that ended the script, "" while none has
    stdout,     \* what the script's own print calls wrote, in order
    handoffs,   \* sre_agent.py: each agent's handoffs list
    agent,      \* main's local variable agent (sre_agent.py)
    messages,   \* main's local variable messages (sre_agent.py)
    turns,      \* how many times input() returned
    runs,       \* how many Runner.run / run_streamed calls were issued
    inflight,   \* how many of them have not completed
    active,     \* the agent the framework is running in the call in flight
    hops,       \* hand-offs taken by the call in flight
    response,   \* the result of the last completed Runner.run
    guardrail,  \* agents_test.py: [checks, is_homework] of the call in flight
    events,     \* tools_streaming.py: the events the stream still holds
    consumed    \* tools_streaming.py: how many events the loop has taken

toolVars == <<tool, args, draws, ret>>
scriptVars == <<script, pc, environ, dotenv, api_key, custom_client,
                default_client, installs, raised, stdout, handoffs, agent,
                messages, turns, runs, inflight, active, hops, response,
                guardrail, events, consumed>>
vars == <<toolVars, scriptVars>>

----------------------------------------------------------------------------
\* Bounds of the model

\* minutes is drawn from 0..MaxMinutes
MaxMinutes == 6
\* random.uniform(-0.1, 0.1) is drawn from the 2*VarSteps+1 evenly spaced points
VarSteps == 1
\* random.randint(lo, hi) is drawn from the values within DrawSpan of lo or hi
DrawSpan == 0
\* dns_server is None or a string of at most MaxDnsLen characters
MaxDnsLen == 3
\* the interactive loop of sre_agent.py is followed for MaxTurns inputs
MaxTurns == 3
\* the framework hands off at most MaxHops times within one run
MaxHops == 2
\* the stream of tools_streaming.py yields at most MaxEvents events
MaxEvents == 3

\* thousandths per unit of a float
Milli == 1000

----------------------------------------------------------------------------
\* Python helpers

Max(a, b) == IF a >= b THEN a ELSE b
Min(a, b) == IF a <= b THEN a ELSE b

Range(s) == {s[i] : i \in DOMAIN s}

RECURSIVE SumSeq(_)
SumSeq(s) == IF s = <<>> THEN 0 ELSE Head(s) + SumSeq(Tail(s))

RECURSIVE MaxSeq(_)
MaxSeq(s) == IF Len(s) = 1 THEN s[1] ELSE Max(Head(s), MaxSeq(Tail(s)))

RECURSIVE MinSeq(_)
MinSeq(s) == IF Len(s) = 1 THEN s[1] ELSE Min(Head(s), MinSeq(Tail(s)))

\* round(num/den, 2) of a non-negative quotient of thousandths, in thousandths:
\* the nearest hundredth, a tie going to the even one
Round2Ratio(num, den) ==
    LET step == 10 * den
        q == num \div step
        r == num - q * step
    IN  IF 2 * r < step THEN 10 * q
        ELSE IF 2 * r > step THEN 10 * (q + 1)
        ELSE IF q % 2 = 0 THEN 10 * q ELSE 10 * (q + 1)

Round2(x) == Round2Ratio(x, 1)

\* the outcomes of random.randint(lo, hi) the model draws
RandInt(lo, hi) == {v \in lo..hi : v <= lo + DrawSpan \/ v >= hi - DrawSpan}

\* the outcomes of random.sample(population, k): k distinct members, in order
Sample(population, k) ==
    {s \in [1..k -> population] : \A i, j \in 1..k : i # j => s[i] # s[j]}

Returned(value) == [raised |-> "", value |-> value]
Raised(exception) == [raised |-> exception, value |-> <<>>]

NoneStr == [is_none |-> TRUE, s |-> <<>>]
SomeStr(s) == [is_none |-> FALSE, s |-> s]

----------------------------------------------------------------------------
\* check_nsg_rules

NsgRule(name, priority, access, protocol, source, port, is_blocking) ==
    [name |-> name, priority |-> priority, direction |-> "Inbound",
     access |-> access, protocol |-> protocol,
     source_address_prefix |-> source, source_port_range |-> "*",
     destination_address_prefix |-> "*", destination_port_range |-> port,
     is_blocking |-> is_blocking]

common_ports == <<"80", "443", "8080", "3000-3010">>

normal_rules ==
    << NsgRule("AllowHTTPS", 100, "Allow", "TCP", "*", "443", FALSE),
       NsgRule("AllowHTTP", 110, "Allow", "TCP", "*", "80", FALSE),
       NsgRule("AllowSSH", 120, "Allow", "TCP", "10.0.0.0/24", "22", FALSE) >>

blocking_rule(blocked_port) ==
    NsgRule("DenyCustomPort", 90, "Deny", "TCP", "*", blocked_port, TRUE)

subnet_blocking_rule ==
    NsgRule("DenySubnet", 150, "Deny", "*", "192.168.0.0/24", "*", TRUE)

default_rule == NsgRule("DenyAll", 4096, "Deny", "*", "*", "*", FALSE)

\* faulty variant: the subnet rule is appended to blocking_rules only
nsg_all_rules_subnet_not_appended(port_block, blocked_port, subnet_block) ==
    normal_rules
      \o (IF port_block THEN <<blocking_rule(blocked_port)>> ELSE <<>>)
      \o <<default_rule>>

\* the lists all_rules and blocking_rules after the two conditional appends
nsg_all_rules(port_block, blocked_port, subnet_block) ==
    normal_rules
      \o (IF port_block THEN <<blocking_rule(blocked_port)>> ELSE <<>>)
      \o (IF subnet_block THEN <<subnet_blocking_rule>> ELSE <<>>)
      \o <<default_rule>>

nsg_blocking_rules(port_block, blocked_port, subnet_block) ==
    (IF port_block THEN <<blocking_rule(blocked_port)>> ELSE <<>>)
      \o (IF subnet_block THEN <<subnet_blocking_rule>> ELSE <<>>)

nsg_has_issues(blocking_rules) == Len(blocking_rules) > 0

check_nsg_rules(port_block, blocked_port, subnet_block) ==
    LET blocking == nsg_blocking_rules(port_block, blocked_port, subnet_block)
    IN  Returned([rules |-> nsg_all_rules(port_block, blocked_port, subnet_block),
                  blocking_rules |-> blocking,
                  has_issues |-> nsg_has_issues(blocking)])

----------------------------------------------------------------------------
\* check_dns

Truthy(opt) == ~opt.is_none /\ opt.s # <<>>

\* str.split(sep): the pieces between the occurrences of sep, empty ones kept
RECURSIVE split(_, _)
split(s, sep) ==
    IF \E i \in 1..Len(s) : s[i] = sep
    THEN LET i == CHOOSE k \in 1..Len(s) :
                    s[k] = sep /\ \A j \in 1..(k - 1) : s[j] # sep
         IN  <<SubSeq(s, 1, i - 1)>> \o split(SubSeq(s, i + 1, Len(s)), sep)
    ELSE <<s>>

\* dns_server.split(",") if dns_server else the two default names
dns_servers(dns_server) ==
    IF Truthy(dns_server) THEN split(dns_server.s, ",")
    ELSE <<"Primary DNS", "Secondary DNS">>

\* the branch of the loop body that builds a failed result
dns_server_fails(has_dns_issues, servers, i) ==
    has_dns_issues /\ servers[i] = servers[1]

\* d: the outcomes of the draws of one loop iteration
DnsResolutionResult(fails, d) ==
    IF fails
    THEN [resolved_ip |-> <<>>,
          status |-> IF d.failed_to_resolve THEN "Failed to resolve" ELSE "Timeout",
          latency_ms |-> d.fail_latency, success |-> FALSE]
    ELSE [resolved_ip |-> <<d.octet, d.octet, d.octet, d.octet>>,
          status |-> "Resolved successfully",
          latency_ms |-> d.latency, success |-> TRUE]

check_dns(hostname, dns_server, has_dns_issues, d) ==
    LET servers == dns_servers(dns_server)
        results == [i \in 1..Len(servers) |->
                       DnsResolutionResult(
                           dns_server_fails(has_dns_issues, servers, i), d)]
    IN  Returned([hostname |-> hostname, resolution_results |-> results,
                  has_issues |-> has_dns_issues])

\* the draws of one iteration; every iteration of a call draws the same
\* values (the outcomes of the random module are enumerated on the diagonal)
DnsDraws ==
    [failed_to_resolve : BOOLEAN, fail_latency : RandInt(500, 2000),
     octet : RandInt(1, 255), latency : RandInt(5, 100)]

DnsAlphabet == {"a", "b", ","}

RECURSIVE Strings(_)
Strings(n) ==
    IF n = 0 THEN {<<>>}
    ELSE LET shorter == Strings(n - 1)
         IN  shorter \cup {Append(s, c) : s \in shorter, c \in DnsAlphabet}

DnsServerInputs == {NoneStr} \cup {SomeStr(s) : s \in Strings(MaxDnsLen)}

----------------------------------------------------------------------------
\* get_cpu_usage, get_memory_usage, _generate_resource_usage

base_value(metric_name) == IF metric_name = "CPU" THEN 30 * Milli ELSE 500 * Milli

peak_value(metric_name, high_usage) ==
    IF metric_name = "CPU"
    THEN (IF high_usage THEN 95 * Milli ELSE 60 * Milli)
    ELSE (IF high_usage THEN 1800 * Milli ELSE 1000 * Milli)

\* high_usage and minutes // 3 < i < 2 * minutes // 3
in_spike(high_usage, minutes, i) ==
    high_usage /\ minutes \div 3 < i /\ i < (2 * minutes) \div 3

\* the division distance_from_center / (minutes // 6) divides by zero
spike_divides_by_zero(minutes) == minutes \div 6 = 0

\* base_value + (peak_value - base_value) * max(0, severity)
spike_value(metric_name, high_usage, minutes, i) ==
    LET sixth == minutes \div 6
        half == minutes \div 2
        distance_from_center == IF i >= half THEN i - half ELSE half - i
        base == base_value(metric_name)
        peak == peak_value(metric_name, high_usage)
    IN  base + ((peak - base) * Max(0, sixth - distance_from_center)) \div sixth

\* base_value * (1 + variation), variation = v / (10 * VarSteps)
normal_value(metric_name, v) ==
    LET base == base_value(metric_name)
    IN  base + (base * v) \div (10 * VarSteps)

\* the list values after the loop; variation[i] is the draw of iteration i
usage_values(metric_name, high_usage, minutes, variation) ==
    [k \in 1..minutes |->
        LET i == k - 1
        IN  IF in_spike(high_usage, minutes, i)
            THEN spike_value(metric_name, high_usage, minutes, i)
            ELSE normal_value(metric_name, variation[k])]

\* the list time_series: the timestamp is its offset from now in minutes
usage_time_series(minutes, values) ==
    [k \in 1..minutes |->
        [timestamp |-> 0 - (minutes - (k - 1)), value |-> Round2(values[k])]]

\* faulty variant: the memory threshold is applied to both metrics
usage_has_issues_one_threshold(metric_name, max_value) ==
    max_value > 1500 * Milli

usage_has_issues(metric_name, max_value) ==
    IF metric_name = "CPU" /\ max_value > 90 * Milli THEN TRUE
    ELSE IF metric_name = "Memory" /\ max_value > 1500 * Milli THEN TRUE
    ELSE FALSE

\* faulty variant: the sum is divided by one more than the number of values
usage_average_off_by_one(values) == Round2Ratio(SumSeq(values), Len(values) + 1)

usage_average(values) == Round2Ratio(SumSeq(values), Len(values))

generate_resource_usage(app_name, metric_name, unit, minutes, high_usage, variation) ==
    IF \E i \in 0..(minutes - 1) :
          in_spike(high_usage, minutes, i) /\ spike_divides_by_zero(minutes)
    THEN Raised("ZeroDivisionError")
    ELSE LET values == usage_values(metric_name, high_usage, minutes, variation)
         IN  IF Len(values) = 0 THEN Raised("ZeroDivisionError")
             ELSE Returned(
                    [app_name |-> app_name, metric_name |-> metric_name,
                     unit |-> unit,
                     time_series |-> usage_time_series(minutes, values),
                     average |-> usage_average(values),
                     max |-> Round2(MaxSeq(values)),
                     min |-> Round2(MinSeq(values)),
                     has_issues |-> usage_has_issues(metric_name, MaxSeq(values))])

get_cpu_usage(container_app_name, minutes, high_usage, variation) ==
    generate_resource_usage(container_app_name, "CPU", "percentage", minutes,
                            high_usage, variation)

get_memory_usage(container_app_name, minutes, high_usage, variation) ==
    generate_resource_usage(container_app_name, "Memory", "MB", minutes,
                            high_usage, variation)

MinutesInputs == 0..MaxMinutes

\* the draws of random.uniform of the iterations that take the normal branch;
\* an iteration on the spike draws nothing and is given 0
Variations(high_usage, minutes) ==
    {v \in [1..minutes -> (0 - VarSteps)..VarSteps] :
        \A k \in 1..minutes : in_spike(high_usage, minutes, k - 1) => v[k] = 0}

----------------------------------------------------------------------------
\* get_logs

error_types ==
    {"Connection timeout", "Database connection failed", "Out of memory",
     "Permission denied", "Image pull failure", "API request failed",
     "Certificate validation error", "Service unavailable"}

EmptyDict == [keys |-> <<>>, val |-> <<>>]

\* d[k] = v
DictSet(d, k, v) ==
    [keys |-> IF k \in Range(d.keys) THEN d.keys ELSE Append(d.keys, k),
     val |-> [x \in Range(d.keys) \cup {k} |-> IF x = k THEN v ELSE d.val[x]]]

\* sum(d.values())
RECURSIVE SumKeys(_, _)
SumKeys(d, ks) == IF ks = <<>> THEN 0 ELSE d.val[Head(ks)] + SumKeys(d, Tail(ks))
DictSum(d) == SumKeys(d, d.keys)

\* selected_errors[0] = "Image pull failure" when it is not selected and the
\* draw random.random() < 0.7 succeeds
substitute_image_pull(selected_errors, substitute) ==
    IF "Image pull failure" \notin Range(selected_errors) /\ substitute
    THEN [selected_errors EXCEPT ![1] = "Image pull failure"]
    ELSE selected_errors

\* faulty variant: the lower bound is remaining_errors // 10, without max(1, ...)
allocation_low_may_be_zero(remaining_errors) == remaining_errors \div 10

\* the bounds of the draw random.randint(max(1, remaining // 10), remaining // 2)
allocation_low(remaining_errors) == Max(1, remaining_errors \div 10)
allocation_high(remaining_errors) == remaining_errors \div 2

\* what the last category is given
last_category_count(remaining_errors) == remaining_errors

\* faulty variant: the allocated count is not taken off
remaining_after_not_reduced(remaining_errors, count) == remaining_errors

\* remaining_errors -= count
remaining_after(remaining_errors, count) == remaining_errors - count

\* the outcomes of the loop that distributes the error counts, from iteration i
\* on: [raised, categories]; random.randint raises ValueError on an empty range
RECURSIVE distribute(_, _, _, _)
distribute(selected_errors, i, remaining_errors, error_categories) ==
    IF i > Len(selected_errors)
    THEN {[raised |-> "", categories |-> error_categories]}
    ELSE IF i = Len(selected_errors)
    THEN {[raised |-> "",
           categories |-> DictSet(error_categories, selected_errors[i],
                                  last_category_count(remaining_errors))]}
    ELSE IF allocation_low(remaining_errors) > allocation_high(remaining_errors)
    THEN {[raised |-> "ValueError", categories |-> error_categories]}
    ELSE UNION {distribute(selected_errors, i + 1,
                           remaining_after(remaining_errors, count),
                           DictSet(error_categories, selected_errors[i], count)) :
                count \in RandInt(allocation_low(remaining_errors),
                                  allocation_high(remaining_errors))}

sample_message(error_type) ==
    CASE error_type = "Connection timeout" ->
           "ERROR: Connection timeout after 30s when connecting to external API endpoint"
      [] error_type = "Database connection failed" ->
           "ERROR: Failed to connect to database: Connection refused (0x5)"
      [] error_type = "Out of memory" ->
           "ERROR: Container terminated due to OOM: Limit: 2048Mi"
      [] error_type = "Permission denied" ->
           "ERROR: Permission denied when accessing blob storage account"
      [] error_type = "Image pull failure" ->
           "ERROR: Failed to pull image 'myregistry.azurecr.io/myapp:latest': unauthorized: authentication required"
      [] error_type = "API request failed" ->
           "ERROR: API request to dependency service failed with status code 503"
      [] error_type = "Certificate validation error" ->
           "ERROR: Certificate validation failed: certificate has expired"
      [] error_type = "Service unavailable" ->
           "ERROR: Dependency service unavailable: connection refused"

\* one message per key of error_categories, in the order of the keys
sample_errors(error_categories) ==
    [i \in 1..Len(error_categories.keys) |-> sample_message(error_categories.keys[i])]

\* the ranges of the scenario's draws
error_count_range(has_serious_errors) ==
    IF has_serious_errors THEN RandInt(50, 200) ELSE RandInt(5, 30)
warning_count_range(has_serious_errors) ==
    IF has_serious_errors THEN RandInt(100, 300) ELSE RandInt(20, 80)
total_logs_range == RandInt(500, 2000)
category_count_range(has_serious_errors) ==
    IF has_serious_errors THEN RandInt(2, 3) ELSE RandInt(1, 2)

\* the outcomes of get_logs once the scenario, the counts and the selection
\* are drawn: one per outcome of the distribution loop
get_logs(has_serious_errors, total_logs, error_count, warning_count, selected_errors) ==
    {IF o.raised # "" THEN Raised(o.raised)
     ELSE Returned([total_logs |-> total_logs, error_count |-> error_count,
                    warning_count |-> warning_count,
                    error_categories |-> o.categories,
                    sample_errors |-> sample_errors(o.categories),
                    has_issues |-> has_serious_errors]) :
     o \in distribute(selected_errors, 1, error_count, EmptyDict)}

\* the draws that select the categories: the sample and, in the serious
\* scenario, the draw that decides the substitution
SelectionDraws(has_serious_errors) ==
    {[sampled |-> s, substitute |-> b] :
       s \in UNION {Sample(error_types, k) :
                    k \in category_count_range(has_serious_errors)},
       b \in IF has_serious_errors THEN BOOLEAN ELSE {FALSE}}

selected_errors_of(has_serious_errors, sel) ==
    IF has_serious_errors
    THEN substitute_image_pull(sel.sampled, sel.substitute)
    ELSE sel.sampled

----------------------------------------------------------------------------
\* The tools as a state machine: a call returns or raises, and its result is
\* discarded before the next call

NoCall == <<>>
AppNames == {"myapp"}
Hostnames == {"example.com"}

InitTools ==
    /\ tool = "none"
    /\ args = NoCall
    /\ draws = NoCall
    /\ ret = Returned(NoCall)

CallCheckNsgRules ==
    /\ tool = "none"
    /\ \E port_block \in BOOLEAN, subnet_block \in BOOLEAN,
          blocked_port \in Range(common_ports) :
         /\ tool' = "check_nsg_rules"
         /\ args' = [resource_group |-> "rg", nsg_name |-> NoneStr]
         /\ draws' = [port_block |-> port_block, subnet_block |-> subnet_block]
         /\ ret' = check_nsg_rules(port_block, blocked_port, subnet_block)
    /\ UNCHANGED scriptVars

CallCheckDns ==
    /\ tool = "none"
    /\ \E hostname \in Hostnames, dns_server \in DnsServerInputs,
          has_dns_issues \in BOOLEAN, d \in DnsDraws :
         /\ tool' = "check_dns"
         /\ args' = [hostname |-> hostname, dns_server |-> dns_server]
         /\ draws' = [has_dns_issues |-> has_dns_issues]
         /\ ret' = check_dns(hostname, dns_server, has_dns_issues, d)
    /\ UNCHANGED scriptVars

CallGetCpuUsage ==
    /\ tool = "none"
    /\ \E app \in AppNames, minutes \in MinutesInputs, high_usage \in BOOLEAN :
         \E variation \in Variations(high_usage, minutes) :
           /\ tool' = "get_cpu_usage"
           /\ args' = [container_app_name |-> app, minutes |-> minutes]
           /\ draws' = [high_usage |-> high_usage]
           /\ ret' = get_cpu_usage(app, minutes, high_usage, variation)
    /\ UNCHANGED scriptVars

CallGetMemoryUsage ==
    /\ tool = "none"
    /\ \E app \in AppNames, minutes \in MinutesInputs, high_usage \in BOOLEAN :
         \E variation \in Variations(high_usage, minutes) :
           /\ tool' = "get_memory_usage"
           /\ args' = [container_app_name |-> app, minutes |-> minutes]
           /\ draws' = [high_usage |-> high_usage]
           /\ ret' = get_memory_usage(app, minutes, high_usage, variation)
    /\ UNCHANGED scriptVars

CallGetLogs ==
    /\ tool = "none"
    /\ \E app \in AppNames, has_serious_errors \in BOOLEAN,
          total_logs \in total_logs_range :
         \E error_count \in error_count_range(has_serious_errors),
            warning_count \in warning_count_range(has_serious_errors),
            sel \in SelectionDraws(has_serious_errors) :
           LET selected_errors == selected_errors_of(has_serious_errors, sel)
           IN  /\ tool' = "get_logs"
               /\ args' = [container_app_name |-> app]
               /\ draws' = [has_serious_errors |-> has_serious_errors,
                            substituted |-> selected_errors # sel.sampled]
               /\ ret' \in get_logs(has_serious_errors, total_logs, error_count,
                                    warning_count, selected_errors)
    /\ UNCHANGED scriptVars

\* the caller is done with the result
Discard ==
    /\ tool # "none"
    /\ tool' = "none"
    /\ args' = NoCall
    /\ draws' = NoCall
    /\ ret' = Returned(NoCall)
    /\ UNCHANGED scriptVars

----------------------------------------------------------------------------
\* The scripts: start-up

Scripts == {"agents_test", "sre_agent", "tools_streaming"}

\* the values OPENAI_API_KEY can have in os.environ and in the .env file
KeyValues(k) == {NoneStr, SomeStr(<<>>), SomeStr(<<k>>)}

NoClient == [api_key |-> NoneStr, azure_endpoint |-> "none"]

azure_endpoint(s) ==
    IF s = "sre_agent" THEN "https://ruslany-net.openai.azure.com"
    ELSE "https://ruslany-openai.openai.azure.com/"

\* AsyncAzureOpenAI(azure_endpoint=..., api_key=api_key, ...)
AsyncAzureOpenAI(s, key) == [api_key |-> key, azure_endpoint |-> azure_endpoint(s)]

\* faulty variant: `api_key is None`
key_missing_none_only(key) == key.is_none

\* `not api_key`
key_missing(key) == ~Truthy(key)

\* a line of the script's own output
Line(kind, payload) == [kind |-> kind, payload |-> payload]

NoResponse == [last_agent |-> "none", final_output |-> "none", input_list |-> <<>>]
NoGuardrail == [checks |-> 0, is_homework |-> FALSE]

InitScripts ==
    /\ script \in Scripts
    /\ pc = "load_dotenv"
    /\ environ \in KeyValues("e")
    /\ dotenv \in KeyValues("d")
    /\ api_key = NoneStr
    /\ custom_client = NoClient
    /\ default_client = NoClient
    /\ installs = 0
    /\ raised = ""
    /\ stdout = <<>>
    /\ handoffs = <<>>
    /\ agent = "none"
    /\ messages = <<>>
    /\ turns = 0
    /\ runs = 0
    /\ inflight = 0
    /\ active = "none"
    /\ hops = 0
    /\ response = NoResponse
    /\ guardrail = NoGuardrail
    /\ events = <<>>
    /\ consumed = 0

mainVars == <<handoffs, agent, messages, turns, runs, inflight, active, hops,
              response, guardrail, events, consumed>>
envVars == <<script, environ, dotenv>>

\* load_dotenv(): a variable of the .env file is set unless os.environ has it
LoadDotenv ==
    /\ pc = "load_dotenv"
    /\ environ' = IF environ.is_none THEN dotenv ELSE environ
    /\ pc' = "getenv"
    /\ UNCHANGED <<script, dotenv, api_key, custom_client, default_client,
                   installs, raised, stdout, mainVars>>
    /\ UNCHANGED toolVars

\* api_key = os.getenv("OPENAI_API_KEY")
GetEnv ==
    /\ pc = "getenv"
    /\ api_key' = environ
    /\ pc' = "check"
    /\ UNCHANGED <<envVars, custom_client, default_client, installs, raised,
                   stdout, mainVars>>
    /\ UNCHANGED toolVars

\* if not api_key: raise ValueError(...); agents_test.py and
\* tools_streaming.py then print the key
CheckApiKey ==
    /\ pc = "check"
    /\ IF key_missing(api_key)
       THEN /\ raised' = "ValueError"
            /\ pc' = "exit"
            /\ stdout' = stdout
       ELSE /\ raised' = raised
            /\ pc' = "construct"
            /\ stdout' = IF script = "sre_agent" THEN stdout
                         ELSE Append(stdout, Line("api_key", api_key.s))
    /\ UNCHANGED <<envVars, api_key, custom_client, default_client, installs,
                   mainVars>>
    /\ UNCHANGED toolVars

\* custom_client = AsyncAzureOpenAI(...)
ConstructClient ==
    /\ pc = "construct"
    /\ custom_client' = AsyncAzureOpenAI(script, api_key)
    /\ pc' = "install"
    /\ UNCHANGED <<envVars, api_key, default_client, installs, raised, stdout,
                   mainVars>>
    /\ UNCHANGED toolVars

\* set_default_openai_client(custom_client)
SetDefaultClient ==
    /\ pc = "install"
    /\ default_client' = custom_client
    /\ installs' = installs + 1
    /\ pc' = "define_agents"
    /\ UNCHANGED <<envVars, api_key, custom_client, raised, stdout, mainVars>>
    /\ UNCHANGED toolVars

----------------------------------------------------------------------------
\* The scripts: the agents

SreAgents == {"coordinator_agent", "networking_diagnostic_agent",
              "availability_diagnostic_agent"}
TestAgents == {"guardrail_agent", "math_tutor_agent", "history_tutor_agent",
               "triage_agent"}

\* faulty variant: the networking agent hands off to the availability agent
networking_handoffs_to_peer == <<"availability_diagnostic_agent">>

\* the three assignments that close the cycle
networking_handoffs == <<"coordinator_agent">>
availability_handoffs == <<"coordinator_agent">>
coordinator_handoffs == <<"networking_diagnostic_agent",
                          "availability_diagnostic_agent">>

\* triage_agent = Agent(name=..., instructions=..., handoffs=[...])
triage_handoffs == <<"history_tutor_agent", "math_tutor_agent">>
\* the input_guardrails that constructor call gives the agent
triage_input_guardrails == <<>>

\* homework_guardrail, given the guardrail agent's final output
homework_guardrail(final_output) ==
    [output_info |-> final_output,
     tripwire_triggered |-> ~final_output.is_homework]

HomeworkOutput(is_homework) == [is_homework |-> is_homework, reasoning |-> "r"]

scriptFrame == <<envVars, api_key, custom_client, default_client, installs>>

\* the Agent(...) constructor calls at module level
DefineAgents ==
    /\ pc = "define_agents"
    /\ handoffs' =
         IF script = "sre_agent" THEN [a \in SreAgents |-> <<>>]
         ELSE IF script = "agents_test"
         THEN [a \in TestAgents |->
                 IF a = "triage_agent" THEN triage_handoffs ELSE <<>>]
         ELSE handoffs
    /\ pc' = IF script = "sre_agent" THEN "wire_networking"
             ELSE IF script = "agents_test" THEN "run" ELSE "main"
    /\ UNCHANGED <<scriptFrame, raised, stdout, agent, messages, turns, runs,
                   inflight, active, hops, response, guardrail, events, consumed>>
    /\ UNCHANGED toolVars

\* networking_diagnostic_agent.handoffs = [coordinator_agent]
WireNetworking ==
    /\ pc = "wire_networking"
    /\ handoffs' = [handoffs EXCEPT !["networking_diagnostic_agent"] =
                                       networking_handoffs]
    /\ pc' = "wire_availability"
    /\ UNCHANGED <<scriptFrame, raised, stdout, agent, messages, turns, runs,
                   inflight, active, hops, response, guardrail, events, consumed>>
    /\ UNCHANGED toolVars

\* availability_diagnostic_agent.handoffs = [coordinator_agent]
WireAvailability ==
    /\ pc = "wire_availability"
    /\ handoffs' = [handoffs EXCEPT !["availability_diagnostic_agent"] =
                                       availability_handoffs]
    /\ pc' = "wire_coordinator"
    /\ UNCHANGED <<scriptFrame, raised, stdout, agent, messages, turns, runs,
                   inflight, active, hops, response, guardrail, events, consumed>>
    /\ UNCHANGED toolVars

\* coordinator_agent.handoffs = [networking_..., availability_...]
WireCoordinator ==
    /\ pc = "wire_coordinator"
    /\ handoffs' = [handoffs EXCEPT !["coordinator_agent"] = coordinator_handoffs]
    /\ pc' = "main"
    /\ UNCHANGED <<scriptFrame, raised, stdout, agent, messages, turns, runs,
                   inflight, active, hops, response, guardrail, events, consumed>>
    /\ UNCHANGED toolVars

----------------------------------------------------------------------------
\* The framework: a call of Runner.run that is in flight.  The framework is
\* not code of this repository; it is the environment of the scripts and is
\* modelled by what the scripts rely on: a run starts with the agent it is
\* given, follows hand-offs the active agent permits, and completes or raises.

startFrame == <<scriptFrame, raised, stdout, handoffs, agent, messages, turns,
                guardrail, events, consumed>>

\* the run moves to one of the active agent's handoffs
Handoff ==
    /\ pc = "await"
    /\ hops < MaxHops
    /\ \E target \in Range(handoffs[active]) :
         /\ active' = target
         /\ hops' = hops + 1
    /\ UNCHANGED <<scriptFrame, pc, raised, stdout, handoffs, agent, messages,
                   turns, runs, inflight, response, guardrail, events, consumed>>
    /\ UNCHANGED toolVars

\* the awaited call completes: last_agent, final_output, to_input_list()
RunComplete ==
    /\ pc = "await"
    /\ response' = [last_agent |-> active,
                    final_output |-> active,
                    input_list |-> Append(messages,
                                     [role |-> "assistant", content |-> active])]
    /\ inflight' = inflight - 1
    /\ pc' = "returned"
    /\ UNCHANGED <<scriptFrame, raised, stdout, handoffs, agent, messages,
                   turns, runs, active, hops, guardrail, events, consumed>>
    /\ UNCHANGED toolVars

\* the awaited call raises; no script catches anything
RunRaises ==
    /\ pc = "await"
    /\ raised' = "AgentsException"
    /\ inflight' = inflight - 1
    /\ pc' = "exit"
    /\ UNCHANGED <<scriptFrame, stdout, handoffs, agent, messages, turns, runs,
                   active, hops, response, guardrail, events, consumed>>
    /\ UNCHANGED toolVars

----------------------------------------------------------------------------
\* sre_agent.py: main

UserInputs == {"my app is down"}

\* agent = coordinator_agent; messages = []
SreMain ==
    /\ script = "sre_agent"
    /\ pc = "main"
    /\ agent' = "coordinator_agent"
    /\ messages' = <<>>
    /\ pc' = "input"
    /\ UNCHANGED <<scriptFrame, raised, stdout, handoffs, turns, runs, inflight,
                   active, hops, response, guardrail, events, consumed>>
    /\ UNCHANGED toolVars

\* user = input("User: "); messages.append({"role": "user", "content": user})
SreInput ==
    /\ script = "sre_agent"
    /\ pc = "input"
    /\ turns < MaxTurns
    /\ \E user \in UserInputs :
         messages' = Append(messages, [role |-> "user", content |-> user])
    /\ stdout' = Append(stdout, Line("prompt", "User: "))
    /\ turns' = turns + 1
    /\ pc' = "run"
    /\ UNCHANGED <<scriptFrame, raised, handoffs, agent, runs, inflight, active,
                   hops, response, guardrail, events, consumed>>
    /\ UNCHANGED toolVars

\* input() raises EOFError when standard input ends
SreInputEOF ==
    /\ script = "sre_agent"
    /\ pc = "input"
    /\ stdout' = Append(stdout, Line("prompt", "User: "))
    /\ raised' = "EOFError"
    /\ pc' = "exit"
    /\ UNCHANGED <<scriptFrame, mainVars>>
    /\ UNCHANGED toolVars

\* Runner.run(agent, messages) is called
SreRunnerRun ==
    /\ script = "sre_agent"
    /\ pc = "run"
    /\ runs' = runs + 1
    /\ inflight' = inflight + 1
    /\ active' = agent
    /\ hops' = 0
    /\ pc' = "await"
    /\ UNCHANGED <<startFrame, response>>
    /\ UNCHANGED toolVars

\* agent = response.last_agent; messages = response.to_input_list()
SreAssign ==
    /\ script = "sre_agent"
    /\ pc = "returned"
    /\ agent' = response.last_agent
    /\ messages' = response.input_list
    /\ pc' = "input"
    /\ UNCHANGED <<scriptFrame, raised, stdout, handoffs, turns, runs, inflight,
                   active, hops, response, guardrail, events, consumed>>
    /\ UNCHANGED toolVars

----------------------------------------------------------------------------
\* agents_test.py: main

test_inputs == <<"I am doing a history homework ...", "what is life">>

\* Runner.run(triage_agent, ...) is called: the framework runs the input
\* guardrails of the starting agent on the input and raises if one trips;
\* is_homework is what the guardrail agent would answer for this input
TestRunnerRun ==
    /\ script = "agents_test"
    /\ pc = "run"
    /\ \E is_homework \in BOOLEAN :
         LET results == [i \in DOMAIN triage_input_guardrails |->
                            homework_guardrail(HomeworkOutput(is_homework))]
             tripped == \E i \in DOMAIN results : results[i].tripwire_triggered
         IN  /\ guardrail' = [checks |-> Len(triage_input_guardrails),
                              is_homework |-> is_homework]
             /\ raised' = IF tripped THEN "InputGuardrailTripwireTriggered"
                          ELSE raised
             /\ inflight' = IF tripped THEN inflight ELSE inflight + 1
             /\ pc' = IF tripped THEN "exit" ELSE "await"
    /\ runs' = runs + 1
    /\ messages' = <<[role |-> "user", content |-> test_inputs[runs + 1]]>>
    /\ agent' = "triage_agent"
    /\ active' = "triage_agent"
    /\ hops' = 0
    /\ UNCHANGED <<scriptFrame, stdout, handoffs, turns, response, events,
                   consumed>>
    /\ UNCHANGED toolVars

\* print(result.final_output)
TestPrint ==
    /\ script = "agents_test"
    /\ pc = "returned"
    /\ stdout' = Append(stdout, Line("final_output", response.final_output))
    /\ pc' = IF runs < Len(test_inputs) THEN "run" ELSE "done"
    /\ UNCHANGED <<scriptFrame, raised, mainVars>>
    /\ UNCHANGED toolVars

----------------------------------------------------------------------------
\* tools_streaming.py: main

\* str(n) of what how_many_jokes returns
IntStr(n) == <<"1", "2", "3", "4", "5">>[n]

how_many_jokes == RandInt(1, 5)

StreamEvents ==
    {[type |-> "raw_response_event", item_type |-> "none", payload |-> "delta"],
     [type |-> "agent_updated_stream_event", item_type |-> "none",
      payload |-> "Joker"],
     [type |-> "run_item_stream_event", item_type |-> "tool_call_item",
      payload |-> "how_many_jokes"],
     [type |-> "run_item_stream_event", item_type |-> "message_output_item",
      payload |-> "jokes"],
     [type |-> "run_item_stream_event", item_type |-> "reasoning_item",
      payload |-> "thoughts"]}
    \cup {[type |-> "run_item_stream_event",
           item_type |-> "tool_call_output_item", payload |-> IntStr(n)] :
          n \in how_many_jokes}

\* faulty variant: the raw response events are printed too
event_output_raw_printed(event) ==
    IF event.type = "agent_updated_stream_event"
    THEN <<Line("agent_updated", event.payload)>>
    ELSE IF event.type = "run_item_stream_event"
    THEN (IF event.item_type = "tool_call_item"
          THEN <<Line("tool_call", "-- Tool was called")>>
          ELSE IF event.item_type = "tool_call_output_item"
          THEN <<Line("tool_output", event.payload)>>
          ELSE IF event.item_type = "message_output_item"
          THEN <<Line("message_output", event.payload)>>
          ELSE <<>>)
    ELSE <<Line("raw", event.payload)>>

\* what the body of the async for prints for one event
event_output(event) ==
    IF event.type = "raw_response_event" THEN <<>>
    ELSE IF event.type = "agent_updated_stream_event"
    THEN <<Line("agent_updated", event.payload)>>
    ELSE IF event.type = "run_item_stream_event"
    THEN (IF event.item_type = "tool_call_item"
          THEN <<Line("tool_call", "-- Tool was called")>>
          ELSE IF event.item_type = "tool_call_output_item"
          THEN <<Line("tool_output", event.payload)>>
          ELSE IF event.item_type = "message_output_item"
          THEN <<Line("message_output", event.payload)>>
          ELSE <<>>)
    ELSE <<>>

\* agent = Agent(name="Joker", ...)
StreamMain ==
    /\ script = "tools_streaming"
    /\ pc = "main"
    /\ agent' = "Joker"
    /\ handoffs' = [a \in {"Joker"} |-> <<>>]
    /\ pc' = "run"
    /\ UNCHANGED <<scriptFrame, raised, stdout, messages, turns, runs, inflight,
                   active, hops, response, guardrail, events, consumed>>
    /\ UNCHANGED toolVars

\* result = Runner.run_streamed(agent, input="Hello")
StreamRunStreamed ==
    /\ script = "tools_streaming"
    /\ pc = "run"
    /\ runs' = runs + 1
    /\ inflight' = inflight + 1
    /\ active' = agent
    /\ hops' = 0
    /\ pc' = "print_start"
    /\ UNCHANGED <<startFrame, response>>
    /\ UNCHANGED toolVars

\* print("=== Run starting ===")
StreamPrintStart ==
    /\ pc = "print_start"
    /\ stdout' = Append(stdout, Line("banner", "=== Run starting ==="))
    /\ pc' = "stream"
    /\ UNCHANGED <<scriptFrame, raised, mainVars>>
    /\ UNCHANGED toolVars

\* one iteration of async for event in result.stream_events()
StreamEvent ==
    /\ pc = "stream"
    /\ consumed < MaxEvents
    /\ \E event \in StreamEvents :
         /\ events' = Append(events, event)
         /\ stdout' = stdout \o event_output(event)
    /\ consumed' = consumed + 1
    /\ UNCHANGED <<scriptFrame, pc, raised, handoffs, agent, messages, turns,
                   runs, inflight, active, hops, response, guardrail>>
    /\ UNCHANGED toolVars

\* the stream is exhausted
StreamEnd ==
    /\ pc = "stream"
    /\ inflight' = inflight - 1
    /\ pc' = "print_complete"
    /\ UNCHANGED <<scriptFrame, raised, stdout, handoffs, agent, messages, turns,
                   runs, active, hops, response, guardrail, events, consumed>>
    /\ UNCHANGED toolVars

\* the stream raises
StreamRaises ==
    /\ pc = "stream"
    /\ raised' = "AgentsException"
    /\ inflight' = inflight - 1
    /\ pc' = "exit"
    /\ UNCHANGED <<scriptFrame, stdout, handoffs, agent, messages, turns, runs,
                   active, hops, response, guardrail, events, consumed>>
    /\ UNCHANGED toolVars

\* print("=== Run complete ===")
StreamPrintComplete ==
    /\ pc = "print_complete"
    /\ stdout' = Append(stdout, Line("banner", "=== Run complete ==="))
    /\ pc' = "done"
    /\ UNCHANGED <<scriptFrame, raised, mainVars>>
    /\ UNCHANGED toolVars

----------------------------------------------------------------------------
\* Specifications

\* no script runs while the tools are checked
NoScript ==
    /\ script = "none"
    /\ pc = "none"
    /\ environ = NoneStr
    /\ dotenv = NoneStr
    /\ api_key = NoneStr
    /\ custom_client = NoClient
    /\ default_client = NoClient
    /\ installs = 0
    /\ raised = ""
    /\ stdout = <<>>
    /\ handoffs = <<>>
    /\ agent = "none"
    /\ messages = <<>>
    /\ turns = 0
    /\ runs = 0
    /\ inflight = 0
    /\ active = "none"
    /\ hops = 0
    /\ response = NoResponse
    /\ guardrail = NoGuardrail
    /\ events = <<>>
    /\ consumed = 0

Init == InitTools /\ NoScript

Next ==
    \/ CallCheckNsgRules \/ CallCheckDns \/ CallGetCpuUsage
    \/ CallGetMemoryUsage \/ CallGetLogs \/ Discard

Spec == Init /\ [][Next]_vars

InitS == InitScripts /\ InitTools

NextS ==
    \/ LoadDotenv \/ GetEnv \/ CheckApiKey \/ ConstructClient
    \/ SetDefaultClient \/ DefineAgents
    \/ WireNetworking \/ WireAvailability \/ WireCoordinator
    \/ Handoff \/ RunComplete \/ RunRaises
    \/ SreMain \/ SreInput \/ SreInputEOF \/ SreRunnerRun \/ SreAssign
    \/ TestRunnerRun \/ TestPrint
    \/ StreamMain \/ StreamRunStreamed \/ StreamPrintStart \/ StreamEvent
    \/ StreamEnd \/ StreamRaises \/ StreamPrintComplete

SpecScripts == InitS /\ [][NextS]_vars

----------------------------------------------------------------------------
\* Properties of the tools (specification Spec)

Tools == {"check_nsg_rules", "check_dns", "get_cpu_usage", "get_memory_usage",
          "get_logs"}
UsageTools == {"get_cpu_usage", "get_memory_usage"}

\* C1: every call of each of the five tools returns its record and raises no
\* error, for every input and every outcome of the draws, in particular
\* get_cpu_usage and get_memory_usage for every integer minutes.
C1_ToolsNeverRaise ==
    tool \in Tools => ret.raised = ""

BlockingCount(rules) == Cardinality({i \in DOMAIN rules : rules[i].is_blocking})

\* C2: in every result of check_nsg_rules the number of rules flagged
\* is_blocking equals the length of blocking_rules, and has_issues is true
\* exactly when that number is not zero.
C2_NsgBlockingCount ==
    tool = "check_nsg_rules" =>
        /\ ret.raised = ""
        /\ BlockingCount(ret.value.rules) = Len(ret.value.blocking_rules)
        /\ ret.value.has_issues <=> BlockingCount(ret.value.rules) # 0

\* both blocking rules were drawn
C2_Witness ==
    /\ tool = "check_nsg_rules"
    /\ draws.port_block /\ draws.subnet_block
    /\ Len(ret.value.blocking_rules) = 2
    /\ Len(ret.value.rules) = 6

\* C3: in every result of get_logs the values of error_categories sum to
\* error_count.
C3_LogsCategoriesSum ==
    (tool = "get_logs" /\ ret.raised = "") =>
        DictSum(ret.value.error_categories) = ret.value.error_count

\* a serious scenario with three categories, the first substituted, and a
\* first allocation that is not the least possible
C3_Witness ==
    /\ tool = "get_logs" /\ ret.raised = ""
    /\ draws.has_serious_errors /\ draws.substituted
    /\ Len(ret.value.error_categories.keys) = 3
    /\ ret.value.error_categories.keys[1] = "Image pull failure"
    /\ ret.value.error_count = 200
    /\ ret.value.error_categories.val["Image pull failure"] = 100

C5_HasIssuesThreshold ==
    /\ (tool = "get_cpu_usage" /\ ret.raised = "") =>
          (ret.value.has_issues <=> ret.value.max > 90 * Milli)
    /\ (tool = "get_memory_usage" /\ ret.raised = "") =>
          (ret.value.has_issues <=> ret.value.max > 1500 * Milli)

\* a CPU series that reports an issue
C5_Witness ==
    /\ tool = "get_cpu_usage" /\ ret.raised = ""
    /\ ret.value.has_issues
    /\ ret.value.max = 95 * Milli

\* the number of names a dns_server string lists
ListedServers(dns_server) ==
    IF dns_server.is_none \/ dns_server.s = <<>> THEN 2
    ELSE 1 + Cardinality({i \in DOMAIN dns_server.s : dns_server.s[i] = ","})

\* C9: every result of check_dns has one resolution result per listed
\* server; with has_issues only the first result has success = false, and
\* without it every result has success = true.
C9_DnsOnlyPrimaryFails ==
    tool = "check_dns" =>
        LET results == ret.value.resolution_results
        IN  /\ ret.raised = ""
            /\ Len(results) = ListedServers(args.dns_server)
            /\ \A i \in DOMAIN results :
                  results[i].success <=> ~(ret.value.has_issues /\ i = 1)

----------------------------------------------------------------------------
\* Properties of the scripts (specification SpecScripts)

\* the value os.getenv reads: the process environment's, else the .env file's
StartupKey == IF environ.is_none THEN dotenv ELSE environ
AbsentOrEmpty(key) == key.is_none \/ key.s = <<>>

\* C6: in each script, an absent or empty OPENAI_API_KEY ends the script with
\* ValueError before a client is constructed or installed and before any run
\* starts; with a key present the default client is installed once and never
\* replaced.
C6_StartupCheck ==
    /\ installs <= 1
    /\ raised = "ValueError" => AbsentOrEmpty(StartupKey)
    /\ (AbsentOrEmpty(StartupKey) /\ pc \notin {"load_dotenv", "getenv", "check"}) =>
          /\ raised = "ValueError" /\ pc = "exit"
          /\ custom_client = NoClient /\ default_client = NoClient
          /\ installs = 0 /\ runs = 0
    /\ (~AbsentOrEmpty(StartupKey)
          /\ pc \notin {"load_dotenv", "getenv", "check", "construct", "install"}) =>
          /\ installs = 1
          /\ default_client.api_key = StartupKey
          /\ default_client = custom_client
    /\ runs > 0 => installs = 1

\* the key is present but empty and the script has stopped
C6_Witness ==
    /\ environ = SomeStr(<<>>) /\ ~dotenv.is_none /\ dotenv.s # <<>>
    /\ pc = "exit" /\ raised = "ValueError"
    /\ installs = 0

PrintedResults ==
    Cardinality({i \in DOMAIN stdout : stdout[i].kind = "final_output"})

\* C7: in the loop of sre_agent.py every user turn issues exactly one
\* Runner.run call, at most one call is in flight, and when input is read
\* again the earlier turn's call has completed and its result was printed.
C7_OneRunPerTurnPrinted ==
    script = "sre_agent" =>
        /\ inflight <= 1
        /\ pc = "input" => /\ inflight = 0
                           /\ runs = turns
                           /\ PrintedResults = turns

HandoffGraph ==
    [a \in SreAgents |->
        IF a = "coordinator_agent"
        THEN <<"networking_diagnostic_agent", "availability_diagnostic_agent">>
        ELSE <<"coordinator_agent">>]

Diagnostic == {"networking_diagnostic_agent", "availability_diagnostic_agent"}

\* C8: once sre_agent.py is initialised the hand-off graph is coordinator ->
\* {networking, availability}, networking -> {coordinator}, availability ->
\* {coordinator}; the active agent is always one of the three and never
\* passes from one diagnostic agent to the other directly.
C8_HandoffGraph ==
    [][(script = "sre_agent"
          /\ pc' \in {"main", "input", "run", "await", "returned"}) =>
         /\ handoffs' = HandoffGraph
         /\ agent' \in SreAgents \cup {"none"}
         /\ (agent' = "none" <=> pc' = "main")
         /\ runs' > 0 => active' \in SreAgents
         /\ ~(active \in Diagnostic /\ active' \in Diagnostic /\ active' # active)]_vars

\* a turn that started on the networking agent is on the availability agent
C8_Witness ==
    /\ script = "sre_agent" /\ pc = "await"
    /\ agent = "networking_diagnostic_agent"
    /\ active = "availability_diagnostic_agent"
    /\ turns = 2

\* C10: a run of the triage agent in agents_test.py is checked by the
\* homework guardrail, whose tripwire aborts the run exactly when the
\* guardrail agent answers is_homework = false.
C10_GuardrailApplied ==
    (script = "agents_test" /\ runs > 0) =>
        /\ guardrail.checks > 0
        /\ (raised = "InputGuardrailTripwireTriggered" <=> ~guardrail.is_homework)


\* the kind of output an event is to produce, "" for none
PrintedKind(event) ==
    IF event.type = "agent_updated_stream_event" THEN "agent_updated"
    ELSE IF event.type = "run_item_stream_event"
    THEN (CASE event.item_type = "tool_call_item" -> "tool_call"
            [] event.item_type = "tool_call_output_item" -> "tool_output"
            [] event.item_type = "message_output_item" -> "message_output"
            [] OTHER -> "")
    ELSE ""

\* the kinds of the outputs a sequence of events is to produce, in order
RECURSIVE PrintedKinds(_)
PrintedKinds(es) ==
    IF es = <<>> THEN <<>>
    ELSE (IF PrintedKind(Head(es)) = "" THEN <<>> ELSE <<PrintedKind(Head(es))>>)
           \o PrintedKinds(Tail(es))

StdoutKinds == [i \in DOMAIN stdout |-> stdout[i].kind]

RunStartingLine == Line("banner", "=== Run starting ===")
RunCompleteLine == Line("banner", "=== Run complete ===")

\* C11: tools_streaming.py prints '=== Run starting ===' before any event
\* output and '=== Run complete ===' after the last event; the events are
\* taken one at a time in stream order, a raw_response_event prints nothing,
\* and each agent-updated, tool-call, tool-output and message-output event
\* prints exactly one output, in the order of the events.
C11_StreamOutputOrder ==
    (script = "tools_streaming" /\ runs > 0 /\ pc # "print_start") =>
        LET out == SubSeq(stdout, 2, Len(stdout))   \* after the api_key line
            body == IF pc = "done" THEN SubSeq(out, 2, Len(out) - 1)
                    ELSE SubSeq(out, 2, Len(out))
        IN  /\ consumed = Len(events)
            /\ Len(out) >= 1 /\ out[1] = RunStartingLine
            /\ pc = "done" => out[Len(out)] = RunCompleteLine
            /\ [i \in DOMAIN body |-> body[i].kind] = PrintedKinds(events)
            /\ pc = "print_complete" => inflight = 0

\* a finished run whose stream held a raw event, a tool output and a message
C11_Witness ==
    /\ script = "tools_streaming" /\ pc = "done"
    /\ Len(events) = 3
    /\ events[1].type = "raw_response_event"
    /\ events[2].item_type = "tool_call_output_item"
    /\ events[3].item_type = "message_output_item"
    /\ Len(stdout) = 5

----------------------------------------------------------------------------
\* Further properties of the tools (specification Spec)

\* C12: in every result of get_logs error_categories holds 2 or 3 distinct
\* error types when has_issues is true and 1 or 2 when it is false, every
\* category's count is at least 1, sample_errors has exactly one message per
\* category, and error_count + warning_count <= total_logs.
C12_LogsShape ==
    (tool = "get_logs" /\ ret.raised = "") =>
        LET v == ret.value
            keys == v.error_categories.keys
        IN  /\ Cardinality(Range(keys)) = Len(keys)
            /\ Range(keys) \subseteq error_types
            /\ DOMAIN v.error_categories.val = Range(keys)
            /\ Len(keys) \in (IF v.has_issues THEN {2, 3} ELSE {1, 2})
            /\ \A k \in Range(keys) : v.error_categories.val[k] >= 1
            /\ Len(v.sample_errors) = Len(keys)
            /\ Cardinality(Range(v.sample_errors)) = Len(keys)
            /\ v.error_count + v.warning_count <= v.total_logs

\* a serious scenario with three categories whose errors and warnings fill
\* the whole log
C12_Witness ==
    /\ tool = "get_logs" /\ ret.raised = ""
    /\ ret.value.has_issues
    /\ Len(ret.value.error_categories.keys) = 3
    /\ ret.value.error_count + ret.value.warning_count = ret.value.total_logs


\* |value - base| <= 10% of base
WithinTenPercent(metric_name, value) ==
    /\ 10 * value >= 9 * base_value(metric_name)
    /\ 10 * value <= 11 * base_value(metric_name)

MetricOf(t) == IF t = "get_cpu_usage" THEN "CPU" ELSE "Memory"

\* C13: for every minutes >= 1 for which get_cpu_usage or get_memory_usage
\* returns a record, the time series has exactly minutes points and
\* has_issues is true exactly when the high-usage scenario was drawn: then
\* some point of the series is at the peak (95 for CPU, 1800 for Memory),
\* and otherwise every value stays within 10% of the base (30, 500).
C13_HighUsageShown ==
    (tool \in UsageTools /\ ret.raised = "" /\ args.minutes >= 1) =>
        LET v == ret.value
            metric == MetricOf(tool)
        IN  /\ Len(v.time_series) = args.minutes
            /\ v.has_issues <=> draws.high_usage
            /\ draws.high_usage =>
                  \E k \in DOMAIN v.time_series :
                     v.time_series[k].value = peak_value(metric, TRUE)
            /\ ~draws.high_usage =>
                  \A k \in DOMAIN v.time_series :
                     WithinTenPercent(metric, v.time_series[k].value)

============================================================================
